---- MODULE Spec2Model ----
(***************************************************************************)
(* arbor: the incremental commit-graph engine.                             *)
(*   internal/gitgraph/provider.go  CommitProvider (frontier traversal,    *)
(*                                  column layout, materialized sequence)  *)
(*   internal/tui/model.go          model (viewport / filter controller)   *)
(*                                                                         *)
(* A commit hash is an integer: the order of the integers is the order of  *)
(* the fixed-width hexadecimal strings Hash.String() returns.  A string    *)
(* (subject, author, query) is a sequence of one-character strings.        *)
(***************************************************************************)
EXTENDS Integers, Sequences, FiniteSets, TLC

VARIABLES
    \* the repository (History Source) and the command line
    parents,        \* hash -> sequence of parent hashes (commit.ParentHashes)
    when,           \* hash -> committer timestamp (commit.Committer.When)
    tips,           \* the reference hashes gatherTips returned, in order
    avail,          \* hashes whose repo.CommitObject lookup succeeds now
    limit,          \* CommitProvider.limit
    \* CommitProvider
    seen,           \* CommitProvider.seen, as the set of keys mapped to true
    heap,           \* CommitProvider.heap, the array of the binary heap
    columns,        \* CommitProvider.graph.columns
    Commits,        \* CommitProvider.Commits
    complete,       \* CommitProvider.complete
    \* observation of the provider's calls (history variables)
    log,            \* per loadNext call: the frontier at the pop, columns before Render,
                    \* len(columns) after it, and whether Render prepended a column
    lookups,        \* number of repo.CommitObject calls issued so far
    failed,         \* hashes whose lookup has failed at least once
    err,            \* the error the most recent loadNext or Ensure returned
    last,           \* the index of the most recent Ensure call (-1 before any)
    \* tui model
    width, height, didLayout, cursor, offset, showSidebar, showFiles,
    searchActive, searchQuery, filter, filtered, filterScanned,
    \* observation of the filter scan (history variables)
    scans,          \* index -> number of times it was tested since the last applyFilter
    scanRuns,       \* refreshFilter runs that tested an entry since the last applyFilter
    filterGen,      \* parity of the number of applyFilter calls
    \* observation of the loading demand (history variables)
    maxTarget,      \* largest offset + viewport + buffer at an ensureVisible call so
                    \* far (-1 before any), observed until a filter is first applied
    everFiltered    \* applyFilter has set a non-empty filter at some point

repoVars  == <<parents, when, tips, limit>>
provVars  == <<seen, heap, columns, Commits, complete>>
obsVars   == <<log, lookups, failed, err>>
uiVars    == <<width, height, didLayout, cursor, offset, showSidebar, showFiles,
               searchActive, searchQuery, filter, filtered, filterScanned>>
scanVars  == <<scans, scanRuns, filterGen, maxTarget, everFiltered>>
vars      == <<repoVars, avail, provVars, obsVars, last, uiVars, scanVars>>

----------------------------------------------------------------------------
(* Bounds of the model *)

NumCommits == 4     \* the graph specification explores histories of 1..NumCommits commits
MaxParents == 2     \* most parents of a commit in those histories
MaxTime    == 1     \* committer timestamps are 0..MaxTime
MaxTips    == 2     \* most references gatherTips returns
MaxLimit   == 2     \* --limit is 0..MaxLimit
MaxMissing == 1     \* most objects missing from the object store at start
ChainLen   == 9     \* the controller specification scrolls a history of ChainLen commits
MaxHeight  == 4     \* terminal heights are 1..MaxHeight
MaxQuery   == 2     \* most characters typed into the search prompt

\* Program constants
Buffer       == 5   \* ensureVisible's look-ahead
HeaderHeight == 1   \* the header is one line, truncated to the width
FooterHeight == 1   \* the footer is one line, truncated to the width
SearchHeight == 1   \* the search prompt is one line

Range(s) == {s[i] : i \in 1..Len(s)}

\* F applied to the value of x, which is computed once (a Go call passes values)
With(x, F(_)) == CHOOSE r \in {F(v) : v \in {x}} : TRUE
Max(a, b) == IF a > b THEN a ELSE b

----------------------------------------------------------------------------
(* Strings *)

\* strings.ToLower, on the letters the model's strings are made of
LowerCh(c) == CASE c = "F" -> "f" [] c = "A" -> "a" [] c = "I" -> "i"
                [] c = "X" -> "x" [] OTHER -> c
ToLower(s) == [i \in 1..Len(s) |-> LowerCh(s[i])]

\* strings.Contains
Contains(s, sub) ==
    \E k \in 0..(Len(s) - Len(sub)) : \A i \in 1..Len(sub) : s[k + i] = sub[i]

\* strings.TrimSpace
RECURSIVE TrimLeft(_)
TrimLeft(s) == IF s # <<>> /\ Head(s) = " " THEN TrimLeft(Tail(s)) ELSE s
RECURSIVE TrimRight(_)
TrimRight(s) == IF s # <<>> /\ s[Len(s)] = " " THEN TrimRight(SubSeq(s, 1, Len(s) - 1)) ELSE s
TrimSpace(s) == TrimRight(TrimLeft(s))

\* the subject (first line of the message) and the author name of commit h:
\* every fifth commit matches no "f" query, the next one matches by author only
SubjectOf(h) == CASE h % 5 \in {0, 1} -> <<"a", "d", "d">>
                  [] h % 2 = 0        -> <<"F", "i", "x">>
                  [] OTHER            -> <<"o", "f", "f">>
AuthorOf(h)  == IF h % 5 = 1 THEN <<"A", "l", "f">> ELSE <<"B", "o">>

----------------------------------------------------------------------------
(* commitHeap and container/heap over it *)

\* commitHeap.Less on the commits a and b
LessFlipped(a, b) ==
    IF when[a] = when[b] THEN a < b ELSE when[a] > when[b]
LessOldestFirst(a, b) ==
    IF when[a] = when[b] THEN a > b ELSE when[a] < when[b]
Less(a, b) ==
    IF when[a] = when[b] THEN a > b ELSE when[a] > when[b]

\* commitHeap.Swap, indices from 0 as in the code
Swap(h, i, j) == [h EXCEPT ![i + 1] = h[j + 1], ![j + 1] = h[i + 1]]

\* container/heap's up and down, driven by Less and Swap
RECURSIVE up(_, _)
up(h, j) ==
    IF j = 0 THEN h
    ELSE LET i == (j - 1) \div 2
         IN  IF ~Less(h[j + 1], h[i + 1]) THEN h ELSE up(Swap(h, i, j), i)

downNone(h, i, n) == h
RECURSIVE down(_, _, _)
down(h, i, n) ==
    LET j1 == 2 * i + 1
    IN  IF j1 >= n THEN h
        ELSE LET j == IF j1 + 1 < n /\ Less(h[j1 + 2], h[j1 + 1]) THEN j1 + 1 ELSE j1
             IN  IF ~Less(h[j + 1], h[i + 1]) THEN h ELSE down(Swap(h, i, j), j, n)

\* heap.Push(&p.heap, x): commitHeap.Push appends, then up
heapPush(h, x) == up(Append(h, x), Len(h))

\* heap.Pop(&p.heap): swap first and last, down, then commitHeap.Pop takes the last
heapPeek(h) == [item |-> h[1], heap |-> h]
heapPop(h) ==
    LET n  == Len(h) - 1
        h1 == down(Swap(h, 0, n), 0, n)
    IN  [item |-> h1[n + 1], heap |-> SubSeq(h1, 1, n)]

----------------------------------------------------------------------------
(* graphState *)

\* indexOfHash: first position of target, from 0, or -1
indexOfHash(list, target) ==
    IF \E i \in 1..Len(list) : list[i] = target
    THEN (CHOOSE i \in 1..Len(list) :
              list[i] = target /\ \A j \in 1..(i - 1) : list[j] # target) - 1
    ELSE -1

\* dedupeHashes: keeps the first occurrence of each hash
dedupeNone(list) == list
dedupeKeepLast(list) ==
    LET keep == {i \in 1..Len(list) : \A j \in (i + 1)..Len(list) : list[j] # list[i]}
    IN  [n \in 1..Cardinality(keep) |->
            list[CHOOSE i \in keep : Cardinality({j \in keep : j < i}) = n - 1]]
RECURSIVE dedupeFrom(_, _, _)
dedupeFrom(list, i, out) ==
    IF i > Len(list) THEN out
    ELSE IF list[i] \in Range(out) THEN dedupeFrom(list, i + 1, out)
    ELSE dedupeFrom(list, i + 1, Append(out, list[i]))
dedupeHashes(list) == dedupeFrom(list, 1, <<>>)

\* Render, a root commit: the column idx is removed
keepColumn(cols, idx) == cols
removeColumn(cols, idx) == SubSeq(cols, 1, idx) \o SubSeq(cols, idx + 2, Len(cols))

\* the loop of Render that inserts parents[i] at idx+i, for i = 1..len(parents)-1
insertNoParents(cols, ps, idx, i) == cols
RECURSIVE insertParents(_, _, _, _)
insertParents(cols, ps, idx, i) ==
    IF i >= Len(ps) THEN cols
    ELSE LET insertAt == idx + i
         IN  insertParents(SubSeq(cols, 1, insertAt) \o <<ps[i + 1]>>
                               \o SubSeq(cols, insertAt + 1, Len(cols)),
                           ps, idx, i + 1)

\* graphState.Render(commit): the row of cells, and the columns it leaves
RenderNoExtra(cols, hash, ps) ==
    LET found   == indexOfHash(cols, hash)
        cols1   == IF found = -1 THEN <<hash>> \o cols ELSE cols
        idx     == IF found = -1 THEN 0 ELSE found
        preLen  == Len(cols1)
        cells   == [c \in 1..preLen |->
                      [Ch |-> IF c - 1 = idx THEN "*"
                              ELSE IF \E i \in 1..(Len(ps) - 1) : c - 1 = idx + i
                                   THEN "\\" ELSE "|",
                       Color |-> c - 1]]
        cols2   == IF Len(ps) = 0
                   THEN removeColumn(cols1, idx)
                   ELSE insertParents([cols1 EXCEPT ![idx + 1] = ps[1]], ps, idx, 1)
    IN  [cells |-> cells, columns |-> dedupeHashes(cols2), prepended |-> found = -1]
Render(cols, hash, ps) ==
    LET found   == indexOfHash(cols, hash)
        cols1   == IF found = -1 THEN <<hash>> \o cols ELSE cols
        idx     == IF found = -1 THEN 0 ELSE found
        preLen  == Len(cols1)
        postLen == IF Len(ps) > 1 THEN preLen + (Len(ps) - 1) ELSE preLen
        cells   == [c \in 1..postLen |->
                      [Ch |-> IF c - 1 = idx THEN "*"
                              ELSE IF \E i \in 1..(Len(ps) - 1) : c - 1 = idx + i
                                   THEN "\\" ELSE "|",
                       Color |-> c - 1]]
        cols2   == IF Len(ps) = 0
                   THEN removeColumn(cols1, idx)
                   ELSE insertParents([cols1 EXCEPT ![idx + 1] = ps[1]], ps, idx, 1)
    IN  [cells |-> cells, columns |-> dedupeHashes(cols2), prepended |-> found = -1]

\* buildCommitInfo: the MaterializedEntry of a commit
buildCommitInfo(hash, cells) ==
    [Hash |-> hash, Subject |-> SubjectOf(hash), Author |-> AuthorOf(hash),
     When |-> when[hash], Graph |-> cells]

----------------------------------------------------------------------------
(* CommitProvider.  A provider value p is the record of its fields and of  *)
(* the observation variables.                                              *)

Provider ==
    [seen |-> seen, heap |-> heap, columns |-> columns, Commits |-> Commits,
     complete |-> complete, log |-> log, lookups |-> lookups, failed |-> failed,
     err |-> err]

\* the body of the loops over tips (NewCommitProvider) and over
\* commit.ParentHashes (loadNext): skip a seen hash, look the hash up, skip a
\* failed lookup, else mark it seen and push it
RECURSIVE discoverUnseen(_, _, _)
discoverUnseen(p, hs, i) ==
    IF i > Len(hs) THEN p
    ELSE LET h == hs[i]
         IN  IF h \notin avail
             THEN discoverUnseen([p EXCEPT !.lookups = @ + 1, !.failed = @ \cup {h}],
                                 hs, i + 1)
             ELSE discoverUnseen([p EXCEPT !.lookups = @ + 1, !.seen = @ \cup {h},
                                           !.heap = heapPush(@, h)],
                                 hs, i + 1)
RECURSIVE discoverAbort(_, _, _)
discoverAbort(p, hs, i) ==
    IF i > Len(hs) THEN p
    ELSE LET h == hs[i]
         IN  IF h \in p.seen THEN discoverAbort(p, hs, i + 1)
             ELSE IF h \notin avail
             THEN [p EXCEPT !.lookups = @ + 1, !.failed = @ \cup {h}]
             ELSE discoverAbort([p EXCEPT !.lookups = @ + 1, !.seen = @ \cup {h},
                                          !.heap = heapPush(@, h)],
                                hs, i + 1)
discoverFirstOnly(p, hs, i) ==
    IF i > Len(hs) \/ hs[i] \in p.seen THEN p
    ELSE IF hs[i] \notin avail
    THEN [p EXCEPT !.lookups = @ + 1, !.failed = @ \cup {hs[i]}]
    ELSE [p EXCEPT !.lookups = @ + 1, !.seen = @ \cup {hs[i]},
                   !.heap = heapPush(@, hs[i])]
RECURSIVE discover(_, _, _)
discover(p, hs, i) ==
    IF i > Len(hs) THEN p
    ELSE LET h == hs[i]
         IN  IF h \in p.seen THEN discover(p, hs, i + 1)
             ELSE IF h \notin avail
             THEN discover([p EXCEPT !.lookups = @ + 1, !.failed = @ \cup {h}],
                           hs, i + 1)
             ELSE discover([p EXCEPT !.lookups = @ + 1, !.seen = @ \cup {h},
                                     !.heap = heapPush(@, h)],
                           hs, i + 1)

\* NewCommitProvider, given the tips gatherTips returned
NewCommitProvider(ts) ==
    discover([seen |-> {}, heap |-> <<>>, columns |-> <<>>, Commits |-> <<>>,
              complete |-> FALSE, log |-> <<>>, lookups |-> 0, failed |-> {},
              err |-> "nil"],
             ts, 1)

\* CommitProvider.HasMore
HasMoreNoLimit(p) == Len(p.heap) > 0
HasMore(p) ==
    IF limit > 0 /\ Len(p.Commits) >= limit THEN FALSE ELSE Len(p.heap) > 0

\* CommitProvider.loadNext
loadNextPrepend(p) ==
    LET popped == heapPop(p.heap)
        commit == popped.item
        r      == Render(p.columns, commit, parents[commit])
        p1     == [p EXCEPT !.heap = popped.heap,
                            !.columns = r.columns,
                            !.Commits = <<buildCommitInfo(commit, r.cells)>> \o @,
                            !.err = "nil",
                            !.log = Append(@, [front |-> Range(p.heap),
                                               cols |-> p.columns,
                                               post |-> Len(r.columns),
                                               prepended |-> r.prepended])]
    IN  With(p1, LAMBDA q : IF limit > 0 /\ Len(q.Commits) >= limit THEN q
                            ELSE discover(q, parents[commit], 1))
loadNext(p) ==
    LET popped == heapPop(p.heap)
        commit == popped.item
        r      == Render(p.columns, commit, parents[commit])
        p1     == [p EXCEPT !.heap = popped.heap,
                            !.columns = r.columns,
                            !.Commits = Append(@, buildCommitInfo(commit, r.cells)),
                            !.err = "nil",
                            !.log = Append(@, [front |-> Range(p.heap),
                                               cols |-> p.columns,
                                               post |-> Len(r.columns),
                                               prepended |-> r.prepended])]
    IN  With(p1, LAMBDA q : IF limit > 0 /\ Len(q.Commits) >= limit THEN q
                            ELSE discover(q, parents[commit], 1))

\* CommitProvider.Ensure
RECURSIVE ensureLoopEager(_, _)
ensureLoopEager(p, index) ==
    IF Len(p.Commits) <= index + 1 /\ HasMore(p)
    THEN With(loadNext(p), LAMBDA q : ensureLoopEager(q, index)) ELSE p
RECURSIVE ensureLoopRest(_, _)
ensureLoopRest(p, index) ==
    IF Len(p.Commits) <= index /\ HasMore(p)
    THEN With(loadNext(p), LAMBDA q : ensureLoopRest(q, index)) ELSE p
ensureLoopDoWhile(p, index) ==
    IF HasMore(p) THEN With(loadNext(p), LAMBDA q : ensureLoopRest(q, index)) ELSE p
RECURSIVE ensureLoop(_, _)
ensureLoop(p, index) ==
    IF Len(p.Commits) <= index /\ HasMore(p)
    THEN With(loadNext(p),
              LAMBDA q : IF q.err # "nil" THEN q ELSE ensureLoop(q, index))
    ELSE [p EXCEPT !.err = "nil"]

Ensure(p, index) ==
    IF index < 0 THEN [p EXCEPT !.err = "nil"]
    ELSE With(ensureLoop(p, index),
              LAMBDA q : IF q.err # "nil" THEN q
                         ELSE IF Len(q.heap) = 0 /\ (limit = 0 \/ Len(q.Commits) < limit)
                         THEN [q EXCEPT !.complete = TRUE] ELSE q)

\* the provider variables take the fields of p
SetProvider(p) ==
    /\ seen' = p.seen
    /\ heap' = p.heap
    /\ columns' = p.columns
    /\ Commits' = p.Commits
    /\ complete' = p.complete
    /\ log' = p.log
    /\ lookups' = p.lookups
    /\ failed' = p.failed
    /\ err' = p.err

----------------------------------------------------------------------------
(* The histories of the graph specification *)

Hashes(n) == 1..n

\* sequences of pairwise distinct elements of S, of length 0..m
RECURSIVE DistinctSeqs(_, _)
DistinctSeqs(S, m) ==
    IF m = 0 THEN {<<>>}
    ELSE LET shorter == DistinctSeqs(S, m - 1)
         IN  shorter \cup {Append(s, x) : s \in shorter, x \in S}
TipSeqs(S, m) == UNION {[1..k -> S] : k \in 1..m}
NoRepeat(s) == \A i, j \in 1..Len(s) : i # j => s[i] # s[j]

\* the commits reachable from the set S through at most k parent links
RECURSIVE Reach(_, _, _)
Reach(par, S, k) ==
    IF k = 0 THEN S
    ELSE Reach(par, S \cup UNION {Range(par[x]) : x \in S}, k - 1)

\* a commit's hash covers its parents' hashes, so no commit is its own ancestor
Acyclic(par, n) == \A h \in Hashes(n) : h \notin Reach(par, Range(par[h]), n)

\* Only the commits reachable from the tips are ever looked up.  Hashes are compared
\* for order only between commits of equal timestamp (Less), and for equality
\* elsewhere: the histories are those over hashes 1..n, all reachable from the tips,
\* numbered so that the timestamp does not decrease with the hash.
InitRepo(maxN, maxMissing) ==
    \E n \in 1..maxN :
        /\ \E seqs \in {{s \in DistinctSeqs(Hashes(n), MaxParents) : NoRepeat(s)}} :
              parents \in [Hashes(n) -> seqs]
        /\ Acyclic(parents, n)
        /\ when \in [Hashes(n) -> 0..MaxTime]
        /\ \A h \in 1..(n - 1) : when[h] <= when[h + 1]
        /\ tips \in TipSeqs(Hashes(n), MaxTips)
        /\ Reach(parents, Range(tips), n) = Hashes(n)
        /\ limit \in 0..MaxLimit
        /\ \E missing \in SUBSET Hashes(n) :
              /\ Cardinality(missing) <= maxMissing
              /\ avail = Hashes(n) \ missing

InitUIIdle ==
    /\ width = 0 /\ height = 0 /\ didLayout = FALSE
    /\ cursor = 0 /\ offset = 0
    /\ showSidebar = TRUE /\ showFiles = FALSE
    /\ searchActive = FALSE /\ searchQuery = <<>>
    /\ filter = <<>> /\ filtered = <<>> /\ filterScanned = 0
    /\ scans = <<>> /\ scanRuns = 0 /\ filterGen = 0
    /\ maxTarget = -1 /\ everFiltered = FALSE

\* the provider variables hold the provider p
InitProvider(p) ==
    /\ seen = p.seen /\ heap = p.heap /\ columns = p.columns
    /\ Commits = p.Commits /\ complete = p.complete
    /\ log = p.log /\ lookups = p.lookups /\ failed = p.failed /\ err = p.err

\* the state NewCommitProvider returns, every object of the history present
Init ==
    /\ InitRepo(NumCommits, 0)
    /\ \E p \in {NewCommitProvider(tips)} : InitProvider(p)
    /\ last = -1
    /\ InitUIIdle

\* a caller calls p.Ensure(index)
EnsureCall(index) ==
    /\ \E p \in {Ensure(Provider, index)} : SetProvider(p)
    /\ UNCHANGED <<repoVars, avail, last, uiVars, scanVars>>

Next ==
    \E index \in -1..NumCommits : EnsureCall(index)

Spec == Init /\ [][Next]_vars

\* the same calls, with the index of the most recent one observed in last
TrackedEnsureCall(index) ==
    /\ \E p \in {Ensure(Provider, index)} : SetProvider(p)
    /\ last' = index
    /\ UNCHANGED <<repoVars, avail, uiVars, scanVars>>

NextCalls ==
    \E index \in -1..NumCommits : TrackedEnsureCall(index)

InitCalls ==
    /\ InitRepo(NumCommits - 1, 0)
    /\ \E p \in {NewCommitProvider(tips)} : InitProvider(p)
    /\ last = -1
    /\ InitUIIdle

SpecCalls == InitCalls /\ [][NextCalls]_vars

\* histories with objects missing from the object store, which may arrive later
InitStore ==
    /\ InitRepo(NumCommits - 1, MaxMissing)
    /\ \E p \in {NewCommitProvider(tips)} : InitProvider(p)
    /\ last = -1
    /\ InitUIIdle

\* the object store gains a missing object (a fetch, an unshallow)
Restore(h) ==
    /\ h \notin avail
    /\ avail' = avail \cup {h}
    /\ UNCHANGED <<repoVars, provVars, obsVars, last, uiVars, scanVars>>

NextStore ==
    \/ \E index \in -1..NumCommits : EnsureCall(index)
    \/ \E h \in DOMAIN parents : Restore(h)

SpecStore == InitStore /\ [][NextStore]_vars

\* every commit's timestamp is later than the timestamp of each of its parents
StrictTimestamps ==
    \A h \in DOMAIN parents : \A q \in Range(parents[h]) : when[q] < when[h]

\* The histories with well-ordered clocks: as in InitRepo, with as many timestamps
\* as commits, every commit later than its parents, no limit and no object missing.
InitStrict ==
    /\ \E n \in 1..NumCommits :
          /\ \E seqs \in {{s \in DistinctSeqs(Hashes(n), MaxParents) : NoRepeat(s)}} :
                parents \in [Hashes(n) -> seqs]
          /\ \A h \in Hashes(n) : \A q \in Range(parents[h]) : q < h
          /\ when \in [Hashes(n) -> 0..(n - 1)]
          /\ \A h \in 1..(n - 1) : when[h] <= when[h + 1]
          /\ StrictTimestamps
          /\ tips \in TipSeqs(Hashes(n), MaxTips)
          /\ Reach(parents, Range(tips), n) = Hashes(n)
          /\ avail = Hashes(n)
    /\ limit = 0
    /\ \E p \in {NewCommitProvider(tips)} : InitProvider(p)
    /\ last = -1
    /\ InitUIIdle

SpecStrict == InitStrict /\ [][Next]_vars

\* The diamond histories: five commits, one tip, one merge commit M whose parents P1
\* and P2 have the same single parent B, and a fifth commit X that is either the
\* parent of B (the tip is M) or the child of M (the tip is X).  Hashes and
\* timestamps are as in InitRepo.
DiamondHashes == 1..5
DiamondParents(M, P1, P2, B, X, mergeIsTip) ==
    [h \in DiamondHashes |->
        CASE h = M  -> <<P1, P2>>
          [] h = P1 -> <<B>>
          [] h = P2 -> <<B>>
          [] h = B  -> IF mergeIsTip THEN <<X>> ELSE <<>>
          [] OTHER  -> IF mergeIsTip THEN <<>> ELSE <<M>>]

InitDiamond ==
    /\ \E M, P1, P2, B, X \in DiamondHashes :
          /\ {M, P1, P2, B, X} = DiamondHashes
          /\ \E mergeIsTip \in BOOLEAN :
                /\ parents = DiamondParents(M, P1, P2, B, X, mergeIsTip)
                /\ tips = <<IF mergeIsTip THEN M ELSE X>>
    /\ when \in [DiamondHashes -> 0..MaxTime]
    /\ \A h \in 1..(Cardinality(DiamondHashes) - 1) : when[h] <= when[h + 1]
    /\ avail = DiamondHashes
    /\ limit \in 0..MaxLimit
    /\ \E p \in {NewCommitProvider(tips)} : InitProvider(p)
    /\ last = -1
    /\ InitUIIdle

NextDiamond ==
    \E index \in -1..Cardinality(DiamondHashes) : EnsureCall(index)

SpecDiamond == InitDiamond /\ [][NextDiamond]_vars

\* a caller that wants everything: it calls p.Ensure(len(p.Commits)) again and again,
\* as ensureVisible does under a filter
Drain ==
    EnsureCall(Len(Commits))

NextDrain == Drain

\* the caller's loop keeps running, so a call that can be made is made
SpecDrain == InitCalls /\ [][NextDrain]_vars /\ WF_vars(NextDrain)

----------------------------------------------------------------------------
(* tui model.  A model value m is the record of its fields, of its         *)
(* provider p and of the scan observation.                                 *)

Model ==
    [p |-> Provider, width |-> width, height |-> height, didLayout |-> didLayout,
     cursor |-> cursor, offset |-> offset,
     showSidebar |-> showSidebar, showFiles |-> showFiles,
     searchActive |-> searchActive, searchQuery |-> searchQuery,
     filter |-> filter, filtered |-> filtered, filterScanned |-> filterScanned,
     scans |-> scans, scanRuns |-> scanRuns, filterGen |-> filterGen,
     maxTarget |-> maxTarget, everFiltered |-> everFiltered]

clamp(val, minVal, maxVal) ==
    IF val < minVal THEN minVal ELSE IF val > maxVal THEN maxVal ELSE val

\* model.layoutHeights and model.viewportHeight
viewportHeight(m) ==
    LET searchHeight == IF m.width <= 0 THEN 0
                        ELSE IF m.searchActive THEN SearchHeight ELSE 0
        h == m.height - HeaderHeight - FooterHeight - searchHeight
    IN  IF h < 1 THEN 1 ELSE h

\* model.listLength
listLength(m) == IF m.filter # <<>> THEN Len(m.filtered) ELSE Len(m.p.Commits)

\* the test of refreshFilter on one entry
rowMatchesSubjectOnly(commit, q) ==
    Contains(ToLower(commit.Subject), ToLower(q))
rowMatches(commit, q) ==
    \/ Contains(ToLower(commit.Subject), ToLower(q))
    \/ Contains(ToLower(commit.Author), ToLower(q))

\* one more test of index i is observed
ScanBump(sc, i) ==
    [k \in 1..Max(Len(sc), i + 1) |->
        (IF k <= Len(sc) THEN sc[k] ELSE 0) + (IF k = i + 1 THEN 1 ELSE 0)]

\* model.refreshFilter
RECURSIVE refreshLoop(_)
refreshLoop(m) ==
    IF m.filterScanned < Len(m.p.Commits)
    THEN LET commit == m.p.Commits[m.filterScanned + 1]
             m1 == IF rowMatches(commit, m.filter)
                   THEN [m EXCEPT !.filtered = Append(@, m.filterScanned)]
                   ELSE m
         IN  With([m1 EXCEPT !.scans = ScanBump(@, m.filterScanned),
                             !.filterScanned = @ + 1],
                  LAMBDA m2 : refreshLoop(m2))
    ELSE m
refreshFilterRescan(m) ==
    IF m.filter = <<>> THEN m
    ELSE refreshLoop([m EXCEPT !.filtered = <<>>, !.filterScanned = 0,
                               !.scanRuns = @ + 1])
refreshFilter(m) ==
    IF m.filter = <<>> THEN m
    ELSE refreshLoop([m EXCEPT !.scanRuns =
                                   IF m.filterScanned < Len(m.p.Commits) THEN @ + 1 ELSE @])

\* model.ensureVisible
ensureVisibleOnce(m) ==
    IF Len(m.filtered) <= m.offset + viewportHeight(m) + Buffer /\ HasMore(m.p)
    THEN With([m EXCEPT !.p = Ensure(m.p, Len(m.p.Commits))],
              LAMBDA m1 : refreshFilter(m1))
    ELSE m
RECURSIVE ensureVisibleLoop(_)
ensureVisibleLoop(m) ==
    IF Len(m.filtered) <= m.offset + viewportHeight(m) + Buffer /\ HasMore(m.p)
    THEN With(With([m EXCEPT !.p = Ensure(m.p, Len(m.p.Commits))],
                   LAMBDA m1 : refreshFilter(m1)),
              LAMBDA m2 : ensureVisibleLoop(m2))
    ELSE m
ensureVisibleAhead(m) ==
    LET viewport == viewportHeight(m)
        m0       == IF m.everFiltered THEN m
                    ELSE [m EXCEPT !.maxTarget = Max(@, m.offset + viewport + Buffer)]
    IN  IF m.filter = <<>>
        THEN [m0 EXCEPT !.p = Ensure(m.p, m.offset + viewport + Buffer + 1)]
        ELSE ensureVisibleLoop(m0)
ensureVisible(m) ==
    LET viewport == viewportHeight(m)
        m0       == IF m.everFiltered THEN m
                    ELSE [m EXCEPT !.maxTarget = Max(@, m.offset + viewport + Buffer)]
    IN  IF viewport <= 0 THEN m
        ELSE IF m.filter = <<>>
        THEN [m0 EXCEPT !.p = Ensure(m.p, m.offset + viewport + Buffer)]
        ELSE ensureVisibleLoop(m0)

\* model.normalizePosition
normalizeNone(m) == m
normalizePosition(m) ==
    LET listLen == listLength(m)
    IN  IF listLen = 0 THEN [m EXCEPT !.cursor = 0, !.offset = 0]
        ELSE LET cur       == clamp(m.cursor, 0, listLen - 1)
                 viewport  == viewportHeight(m)
                 maxOffset == Max(0, listLen - viewport)
                 off1      == clamp(m.offset, 0, maxOffset)
                 off2      == IF cur < off1 THEN cur ELSE off1
                 off3      == IF cur >= off2 + viewport THEN cur - viewport + 1 ELSE off2
             IN  [m EXCEPT !.cursor = cur, !.offset = off3]

\* model.moveCursor
moveCursorJump(m, delta) ==
    IF listLength(m) = 0 THEN m
    ELSE LET cur  == clamp(m.cursor + delta, 0, listLength(m) - 1)
             off1 == IF cur < m.offset THEN cur ELSE m.offset
             off2 == IF cur >= off1 + viewportHeight(m) THEN cur ELSE off1
             m1   == [m EXCEPT !.cursor = cur, !.offset = off2]
         IN  IF delta > 0
             THEN With(ensureVisible(m1),
                       LAMBDA m2 : IF m2.cursor >= listLength(m2) - 1 /\ HasMore(m2.p)
                                   THEN ensureVisible(m2) ELSE m2)
             ELSE m1
moveCursor(m, delta) ==
    IF listLength(m) = 0 THEN m
    ELSE LET cur  == clamp(m.cursor + delta, 0, listLength(m) - 1)
             off1 == IF cur < m.offset THEN cur ELSE m.offset
             off2 == IF cur >= off1 + viewportHeight(m)
                     THEN cur - viewportHeight(m) + 1 ELSE off1
             m1   == [m EXCEPT !.cursor = cur, !.offset = off2]
         IN  IF delta > 0
             THEN With(ensureVisible(m1),
                       LAMBDA m2 : IF m2.cursor >= listLength(m2) - 1 /\ HasMore(m2.p)
                                   THEN ensureVisible(m2) ELSE m2)
             ELSE m1

\* model.applyFilter
applyFilterKeepPosition(m, query) ==
    LET m1 == [m EXCEPT !.filter = TrimSpace(query), !.filtered = <<>>,
                        !.filterScanned = 0,
                        !.scans = <<>>, !.scanRuns = 0, !.filterGen = 1 - @,
                        !.everFiltered = @ \/ TrimSpace(query) # <<>>,
                        !.maxTarget = IF TrimSpace(query) # <<>> THEN -1 ELSE @]
    IN  IF m1.filter = <<>> THEN m1 ELSE With(m1, LAMBDA m2 : refreshFilter(m2))
applyFilter(m, query) ==
    LET m1 == [m EXCEPT !.filter = TrimSpace(query), !.filtered = <<>>,
                        !.filterScanned = 0, !.cursor = 0, !.offset = 0,
                        !.scans = <<>>, !.scanRuns = 0, !.filterGen = 1 - @,
                        !.everFiltered = @ \/ TrimSpace(query) # <<>>,
                        !.maxTarget = IF TrimSpace(query) # <<>> THEN -1 ELSE @]
    IN  IF m1.filter = <<>> THEN m1 ELSE With(m1, LAMBDA m2 : refreshFilter(m2))

\* The widths of a tea.WindowSizeMsg; the model tells only width <= 0 apart.
Widths == {80}

\* The keys of a tea.KeyMsg.  A key is [type, rune]: the types the handlers tell
\* apart, and the character of a printable key.
Runes == {"F", "x", " "}
Keys ==
    {[type |-> t, rune |-> ""] :
        t \in {"up", "down", "enter", "tab", "esc", "backspace"}}
    \cup {[type |-> "runes", rune |-> "/"]}
    \cup {[type |-> "runes", rune |-> r] : r \in Runes}

\* model.handleSearchKey
handleSearchKey(m, key) ==
    CASE key.type = "esc" ->
            [m EXCEPT !.searchActive = FALSE, !.searchQuery = <<>>]
      [] key.type = "enter" ->
            applyFilter([m EXCEPT !.searchActive = FALSE], m.searchQuery)
      [] key.type = "backspace" ->
            IF Len(m.searchQuery) > 0
            THEN [m EXCEPT !.searchQuery = SubSeq(@, 1, Len(@) - 1)] ELSE m
      [] key.type = "runes" ->
            [m EXCEPT !.searchQuery = Append(@, key.rune)]
      [] OTHER -> m

\* model.Update on a tea.WindowSizeMsg
updateWindowSize(m, w, h) ==
    LET m1 == [m EXCEPT !.width = w, !.height = h]
        m2 == IF ~m1.didLayout
              THEN [m1 EXCEPT !.cursor = 0, !.offset = 0, !.didLayout = TRUE]
              ELSE m1
    IN  With(With(m2, LAMBDA m3 : ensureVisible(m3)),
             LAMBDA m4 : normalizePosition(m4))

\* model.Update on a tea.KeyMsg
updateKey(m, key) ==
    IF m.searchActive
    THEN With(With(handleSearchKey(m, key), LAMBDA m1 : ensureVisible(m1)),
              LAMBDA m2 : normalizePosition(m2))
    ELSE LET m1 ==
               CASE key.type = "up" -> moveCursor(m, -1)
                 [] key.type = "down" -> moveCursor(m, 1)
                 [] key.type = "enter" -> [m EXCEPT !.showFiles = ~@]
                 [] key.type = "runes" /\ key.rune = "/" ->
                       normalizePosition([m EXCEPT !.searchActive = TRUE,
                                                   !.searchQuery = m.filter])
                 [] key.type = "tab" -> [m EXCEPT !.showSidebar = ~@]
                 [] OTHER -> m
         IN  With(With(m1, LAMBDA m2 : ensureVisible(m2)),
                  LAMBDA m3 : normalizePosition(m3))

\* the model variables take the fields of m
SetModel(m) ==
    /\ SetProvider(m.p)
    /\ width' = m.width /\ height' = m.height /\ didLayout' = m.didLayout
    /\ cursor' = m.cursor /\ offset' = m.offset
    /\ showSidebar' = m.showSidebar /\ showFiles' = m.showFiles
    /\ searchActive' = m.searchActive /\ searchQuery' = m.searchQuery
    /\ filter' = m.filter /\ filtered' = m.filtered
    /\ filterScanned' = m.filterScanned
    /\ scans' = m.scans /\ scanRuns' = m.scanRuns /\ filterGen' = m.filterGen
    /\ maxTarget' = m.maxTarget /\ everFiltered' = m.everFiltered

\* A history of ChainLen commits, newest first from the single tip, in which every
\* third commit merges the two commits before it and every other commit has the
\* commit before it as its parent; NewCommitProvider, then NewModel, which calls
\* Ensure(0).
InitUI ==
    /\ parents = [h \in 1..ChainLen |->
                     IF h = 1 THEN <<>>
                     ELSE IF h % 3 = 0 THEN <<h - 1, h - 2>> ELSE <<h - 1>>]
    /\ when = [h \in 1..ChainLen |-> h]
    /\ tips = <<ChainLen>>
    /\ avail = 1..ChainLen
    /\ limit \in {0, ChainLen - 1}
    /\ \E p \in {Ensure(NewCommitProvider(tips), 0)} : InitProvider(p)
    /\ last = -1
    /\ InitUIIdle

\* the terminal is resized to h rows
Resize(h) ==
    /\ \E w \in Widths : \E m \in {updateWindowSize(Model, w, h)} : SetModel(m)
    /\ UNCHANGED <<repoVars, avail, last>>

\* a key is pressed; the characters typed into the search prompt are those of
\* Runes, at most MaxQuery of them
KeyPress(key) ==
    /\ (searchActive /\ key.type = "runes") =>
           (key.rune \in Runes /\ Len(searchQuery) < MaxQuery)
    /\ \E m \in {updateKey(Model, key)} : SetModel(m)
    /\ UNCHANGED <<repoVars, avail, last>>

NextUI ==
    \/ \E h \in 1..MaxHeight : Resize(h)
    \/ \E key \in Keys : KeyPress(key)

SpecUI == InitUI /\ [][NextUI]_vars

----------------------------------------------------------------------------
(* Properties *)

HashAt(i)  == Commits[i].Hash
ParentsAt(i) == parents[HashAt(i)]
\* the number of cells of row i that show the glyph ch
Glyphs(i, ch) ==
    Cardinality({c \in 1..Len(Commits[i].Graph) : Commits[i].Graph[c].Ch = ch})
\* the columns at the moment row i was laid out: those before the Render call,
\* with the commit's own column prepended when it was not open
ColumnsAtRender(i) == Len(log[i].cols) + (IF log[i].prepended THEN 1 ELSE 0)
\* the parents of commit i that were already open in another column
OpenElsewhere(i) == Range(ParentsAt(i)) \cap (Range(log[i].cols) \ {HashAt(i)})

\* C1: no commit hash appears at two different indices of the Materialized
\* Sequence, whatever the tips (duplicates included) and however paths converge.
C1_NoDuplicateCommit ==
    \A i, j \in 1..Len(Commits) : i # j => HashAt(i) # HashAt(j)

\* C1 witness: the same tip was given twice, and a materialized commit is a parent
\* of two materialized commits (two paths converged on it).
C1_Witness ==
    /\ \E k \in 1..Len(Commits) :
          Cardinality({i \in 1..Len(Commits) : HashAt(k) \in Range(ParentsAt(i))}) >= 2
    /\ Len(tips) = 2 /\ tips[1] = tips[2]

\* C2: Ensure(index) with index < 0 changes nothing; with index >= 0 and old length L
\* it returns with len(Commits) = max(L, index+1), or with HasMore() false and
\* len(Commits) <= index; it never materializes more than index+1 entries when
\* L <= index.
C2_EnsureStopsAtDemand ==
    [][LET L == Len(Commits)
           n == Len(Commits')
       IN  /\ last' < 0 => UNCHANGED <<provVars, obsVars>>
           /\ last' >= 0 =>
                /\ \/ n = Max(L, last' + 1)
                   \/ (~HasMore(Provider') /\ n <= last')
                /\ L <= last' => n <= last' + 1]_vars

\* C2 witness: the last call stopped exactly at its demand although more was there.
C2_Witness ==
    last >= 1 /\ Len(Commits) = last + 1 /\ HasMore(Provider)

\* C3: right after Ensure(i) has returned, a further Ensure(j) with j <= i leaves
\* the frontier, the seen set, Column State and the Materialized Sequence unchanged
\* and issues no lookup.
C3_EnsureIdempotent ==
    [][last' <= last => UNCHANGED <<heap, seen, columns, Commits, lookups>>]_vars

\* C3 witness: the most recent call asked for less than is materialized (so a call
\* with a larger index came before it) while the traversal could still advance.
C3_Witness ==
    last >= 0 /\ Len(Commits) > last + 1 /\ HasMore(Provider)

\* C4: with limit = N > 0, len(Commits) <= N always and HasMore() is false whenever
\* len(Commits) = N, even with a non-empty frontier; with limit = 0 HasMore() is
\* true exactly when the frontier is non-empty.
C4_LimitBounds ==
    /\ limit > 0 => /\ Len(Commits) <= limit
                    /\ Len(Commits) = limit => ~HasMore(Provider)
    /\ limit = 0 => (HasMore(Provider) <=> Len(heap) > 0)

\* C4 witness: the limit is reached with commits still in the frontier.
C4_Witness ==
    limit > 0 /\ Len(Commits) = limit /\ Len(heap) > 0

\* C5 as stated: of two materialized commits with identical timestamps the one with
\* the greater hash is at the smaller index, however they were discovered.
C5_GreaterHashFirst_Original ==
    \A i, j \in 1..Len(Commits) :
        (Commits[i].When = Commits[j].When /\ HashAt(i) > HashAt(j)) => i < j

\* C5 amended: of two commits with identical timestamps that are in the frontier
\* together (the later one was in the frontier when the earlier one was popped), the
\* one with the greater hash is emitted first.
C5_GreaterHashFirstInFrontier ==
    \A i, j \in 1..Len(Commits) :
        (i < j /\ Commits[i].When = Commits[j].When /\ HashAt(j) \in log[i].front)
            => HashAt(i) > HashAt(j)

\* C5 witness: two commits of one timestamp were in the frontier together and both
\* are materialized.
C5_Witness ==
    \E i, j \in 1..Len(Commits) :
        i < j /\ Commits[i].When = Commits[j].When /\ HashAt(j) \in log[i].front

\* C6 as stated: a merge commit with k >= 2 parents has exactly k-1 cells "\" in its
\* row and Column State is exactly k-1 longer after its Render call than before it.
C6_MergeGrowsColumns_Original ==
    \A i \in 1..Len(Commits) :
        Len(ParentsAt(i)) >= 2 =>
            /\ Glyphs(i, "\\") = Len(ParentsAt(i)) - 1
            /\ log[i].post = Len(log[i].cols) + Len(ParentsAt(i)) - 1

\* C6 amended: a merge commit with k >= 2 parents has exactly k-1 cells "\" in its
\* row, and Column State after its Render call is k-1 longer than the columns at
\* render time (those before the call, plus the commit's own column when Render had
\* to prepend it), less one for every parent already open in another column.
C6_MergeGrowsColumns ==
    \A i \in 1..Len(Commits) :
        Len(ParentsAt(i)) >= 2 =>
            /\ Glyphs(i, "\\") = Len(ParentsAt(i)) - 1
            /\ log[i].post = ColumnsAtRender(i) + Len(ParentsAt(i)) - 1
                                 - Cardinality(OpenElsewhere(i))

\* C6 witness: a merge commit was rendered in its own open column while one of its
\* parents was already open in another column.
C6_Witness ==
    \E i \in 1..Len(Commits) :
        Len(ParentsAt(i)) >= 2 /\ ~log[i].prepended /\ OpenElsewhere(i) # {}

\* C7 as stated: rendering a root commit leaves Column State exactly 1 shorter than
\* it was before the Render call.
C7_RootShrinksColumns_Original ==
    \A i \in 1..Len(Commits) :
        Len(ParentsAt(i)) = 0 => log[i].post = Len(log[i].cols) - 1

\* C7 amended: rendering a root commit whose hash is an open column leaves Column
\* State exactly 1 shorter than before the call; rendering a root commit that is not
\* an open column (Render prepends its column and removes it again) leaves the
\* length unchanged.
C7_RootShrinksColumns ==
    \A i \in 1..Len(Commits) :
        Len(ParentsAt(i)) = 0 =>
            log[i].post = Len(log[i].cols) - (IF log[i].prepended THEN 0 ELSE 1)

\* C7 witness: a root commit was rendered in a column that was open for it, next to
\* another open column.
C7_Witness ==
    \E i \in 1..Len(Commits) :
        Len(ParentsAt(i)) = 0 /\ ~log[i].prepended /\ Len(log[i].cols) >= 2

\* C8: after every Render step Column State contains no hash twice.
C8_ColumnsDistinct ==
    \A i, j \in 1..Len(columns) : i # j => columns[i] # columns[j]

\* C8 witness: the last Render wrote a parent that was already open in another
\* column, and two columns are still open.
C8_Witness ==
    /\ Len(Commits) >= 1
    /\ OpenElsewhere(Len(Commits)) # {}
    /\ Len(columns) >= 2

\* case-insensitive containment, character by character
ContainsFold(text, q) ==
    \E k \in 0..(Len(text) - Len(q)) :
        \A i \in 1..Len(q) : LowerCh(text[k + i]) = LowerCh(q[i])
\* the indices below n whose subject or author contains the active query
MatchingBelow(n) ==
    {i \in 0..(n - 1) : \/ ContainsFold(Commits[i + 1].Subject, filter)
                        \/ ContainsFold(Commits[i + 1].Author, filter)}
StrictlyAscending(s) == \A i \in 1..(Len(s) - 1) : s[i] < s[i + 1]

\* C9: while a non-empty filter is active, filterScanned <= len(Commits) and the
\* filtered index list is the strictly ascending list of all indices below
\* filterScanned whose subject or author contains the query case-insensitively; once
\* the traversal is exhausted it is the matching indices of the whole sequence.
C9_FilteredIsMatches ==
    filter # <<>> =>
        /\ filterScanned <= Len(Commits)
        /\ StrictlyAscending(filtered)
        /\ Range(filtered) = MatchingBelow(filterScanned)
        /\ ~HasMore(Provider) => Range(filtered) = MatchingBelow(Len(Commits))

\* C9 witness: a filter is active, the traversal is exhausted, some entries match and
\* some do not, and one matches by its author alone, in another letter case.
C9_Witness ==
    /\ filter # <<>>
    /\ ~HasMore(Provider)
    /\ Len(filtered) < Len(Commits)
    /\ \E k \in 1..Len(filtered) :
          /\ ~ContainsFold(Commits[filtered[k] + 1].Subject, filter)
          /\ ~Contains(Commits[filtered[k] + 1].Author, filter)

\* C10: between two applyFilter calls filterScanned never decreases, and every index
\* of the Materialized Sequence is tested against the query at most once.
C10_ScanMonotonic ==
    [][/\ filterGen' = filterGen => filterScanned' >= filterScanned
       /\ \A k \in 1..Len(scans') : scans'[k] <= 1]_vars

\* C10 witness: since the filter was applied, refreshFilter has scanned new entries
\* in three separate runs as the sequence grew.
C10_Witness ==
    filter # <<>> /\ scanRuns >= 3 /\ filterScanned = Len(Commits)

\* C11: applyFilter with an empty or whitespace-only query clears all filtered
\* state: the filter is inactive, the filtered index list is empty, the scan cursor,
\* the cursor and the offset are 0, the logical list is the whole Materialized
\* Sequence, and applyFilter itself leaves the provider as it was.  (A step with
\* filterGen changed is the Enter key of the search prompt, which applies
\* searchQuery.)
C11_EmptyQueryClears ==
    [][(filterGen' # filterGen /\ TrimSpace(searchQuery) = <<>>) =>
          /\ filter' = <<>> /\ filtered' = <<>> /\ filterScanned' = 0
          /\ cursor' = 0 /\ offset' = 0
          /\ listLength(Model') = Len(Commits')
          /\ applyFilter([Model EXCEPT !.searchActive = FALSE], searchQuery).p
                 = Provider]_vars

\* C11 witness: a whitespace-only query was applied from the search prompt after the
\* history had been loaded to its end (under an earlier filter or by scrolling).
C11_Witness ==
    /\ ~searchActive /\ searchQuery # <<>> /\ TrimSpace(searchQuery) = <<>>
    /\ filter = <<>> /\ cursor = 0
    /\ limit = 0 /\ ~HasMore(Provider)

\* C12: after every handled UI event, if the logical list is empty then
\* cursor = offset = 0, otherwise 0 <= cursor <= listLength-1 and
\* offset <= cursor < offset + viewportHeight with
\* 0 <= offset <= max(0, listLength - viewportHeight).
C12_CursorInWindow ==
    LET n == listLength(Model)
        v == viewportHeight(Model)
    IN  IF n = 0 THEN cursor = 0 /\ offset = 0
        ELSE /\ 0 <= cursor /\ cursor <= n - 1
             /\ offset <= cursor /\ cursor < offset + v
             /\ 0 <= offset /\ offset <= Max(0, n - v)

\* C12 witness: under an active filter the list is longer than the viewport, the
\* view is scrolled and the cursor is on the last visible row, which is not the last
\* row of the list.
C12_Witness ==
    /\ filter # <<>> /\ offset > 0
    /\ cursor = offset + viewportHeight(Model) - 1
    /\ cursor < listLength(Model) - 1

\* the hashes of the Materialized Sequence, and the commits reachable from the tips
MaterializedHashes == {Commits[i].Hash : i \in 1..Len(Commits)}
ReachableFromTips == Reach(parents, Range(tips), Cardinality(DOMAIN parents))

\* C13: on a finite commit DAG with limit = 0 and every lookup succeeding, repeated
\* calls Ensure(len(Commits)) reach a state where HasMore() is false, and whenever
\* HasMore() is false the hashes of the Materialized Sequence are exactly the commits
\* reachable from the tips.
C13_DrainTerminates ==
    /\ (limit = 0) ~> (~HasMore(Provider) /\ MaterializedHashes = ReachableFromTips)
    /\ []((limit = 0 /\ ~HasMore(Provider)) => MaterializedHashes = ReachableFromTips)

\* C13 witness: without a limit, the traversal from two different tips has ended
\* after materializing every commit, a merge commit among them.
C13_Witness ==
    /\ limit = 0 /\ ~HasMore(Provider) /\ complete
    /\ Len(tips) = 2 /\ tips[1] # tips[2]
    /\ Len(Commits) = NumCommits - 1
    /\ \E i \in 1..Len(Commits) : Len(ParentsAt(i)) = 2

\* the two tips have no common ancestor
TipsDisjoint ==
    /\ Len(tips) = 2
    /\ Reach(parents, {tips[1]}, Cardinality(DOMAIN parents))
           \cap Reach(parents, {tips[2]}, Cardinality(DOMAIN parents)) = {}
\* entry i is not lower than entry j in the order of commitHeap.Less
NotLower(i, j) == ~Less(HashAt(j), HashAt(i))
\* every commit comes before each of its parents in the order of commitHeap.Less
ChildBeforeParent ==
    \A h \in DOMAIN parents : \A q \in Range(parents[h]) : Less(h, q)

\* C14 as stated: for two tips with no common ancestor, once traversal completes, for
\* all indices i < j entry i is not lower than entry j in the order (timestamp
\* descending, then hash descending).
C14_SortedInterleaving_Original ==
    (TipsDisjoint /\ complete) =>
        \A i, j \in 1..Len(Commits) : i < j => NotLower(i, j)

\* C14 amended: for two tips with no common ancestor, in a history where every commit
\* comes before each of its parents in the order, once traversal completes, for all
\* indices i < j entry i is not lower than entry j.
C14_SortedInterleaving ==
    (TipsDisjoint /\ ChildBeforeParent /\ complete) =>
        \A i, j \in 1..Len(Commits) : i < j => NotLower(i, j)

\* C14 witness: the traversal of two disjoint ordered histories is complete, and a
\* commit of the second tip's history lies between two of the first tip's.
C14_Witness ==
    /\ TipsDisjoint /\ ChildBeforeParent /\ complete
    /\ Len(Commits) = NumCommits
    /\ \E i, j, k \in 1..Len(Commits) :
          /\ i < j /\ j < k
          /\ {HashAt(i), HashAt(k)} \subseteq
                 Reach(parents, {tips[1]}, Cardinality(DOMAIN parents))
          /\ HashAt(j) \in Reach(parents, {tips[2]}, Cardinality(DOMAIN parents))

\* the parents of the merge commit at index i both come before their shared parent
\* in the order of commitHeap.Less
ParentsBeforeBase(i) ==
    \A q \in Range(ParentsAt(i)) : Less(q, parents[q][1])
\* the rows of the diamond, the merge commit being at index i
DiamondRows(i) ==
    /\ Len(Commits[i].Graph) = 2
    /\ Commits[i].Graph[1].Ch = "*" /\ Commits[i].Graph[2].Ch = "\\"
    /\ \A j \in {i + 1, i + 2} \cap (1..Len(Commits)) :
          /\ HashAt(j) \in Range(ParentsAt(i))
          /\ Len(Commits[j].Graph) = 2
    /\ i + 2 <= Len(Commits) => log[i + 2].post = 1
    /\ \A j \in (i + 3)..Len(Commits) : Len(Commits[j].Graph) = 1

\* C15 as stated: in a diamond history the merge commit's row has exactly 2 cells,
\* "*" at column 0 and "\" at column 1, the next two rendered rows are P1 and P2 and
\* have exactly 2 cells each, after the second of them Column State has length 1,
\* and every later row has 1 cell.
C15_Diamond_Original ==
    \A i \in 1..Len(Commits) : Len(ParentsAt(i)) = 2 => DiamondRows(i)

\* C15 amended: the same, in a diamond history where P1 and P2 both come before
\* their shared parent in the order (timestamp descending, then hash descending).
C15_Diamond ==
    \A i \in 1..Len(Commits) :
        (Len(ParentsAt(i)) = 2 /\ ParentsBeforeBase(i)) => DiamondRows(i)

\* C15 witness: the whole diamond is materialized, P1 and P2 came before their shared
\* parent, the second parent of the merge was rendered before the first, and the
\* columns have collapsed to one.
C15_Witness ==
    /\ Len(Commits) = Cardinality(DiamondHashes) /\ complete
    /\ \E i \in 1..Len(Commits) :
          /\ Len(ParentsAt(i)) = 2 /\ ParentsBeforeBase(i)
          /\ HashAt(i + 1) = ParentsAt(i)[2]
          /\ log[i + 2].post = 1
          /\ Len(Commits[Len(Commits)].Graph) = 1

\* C19: as long as no filter has ever been applied, the number of materialized commits
\* is at most 1 + the largest value of offset + viewportHeight + 5 that held at any
\* ensureVisible call so far (before the first such call it is the one commit that
\* NewModel loads).
C19_LazyLoadingBound ==
    ~everFiltered => Len(Commits) <= Max(1, 1 + maxTarget)

\* C19 witness: no filter was ever applied, the view is scrolled, the sequence has
\* grown exactly to the bound, and the history has more commits.
C19_Witness ==
    /\ ~everFiltered /\ offset > 0
    /\ Len(Commits) = 1 + maxTarget
    /\ HasMore(Provider)

\* the commits that left the frontier in this step
LeftFrontier == (seen' \ Range(heap')) \ (seen \ Range(heap))

\* C16: a failed lookup of a parent hash is non-fatal: the failing hash is added to
\* neither the seen set nor the frontier, Ensure returns no error, the commit being
\* expanded is still appended, and the remaining parents of that commit are still
\* looked up and enqueued.  (The parents loop runs for the commit appended at index
\* i unless the limit is reached with it.)
C16_FailedLookupNonFatal ==
    [][/\ err' = "nil"
       /\ LeftFrontier \subseteq {Commits'[i].Hash : i \in 1..Len(Commits')}
       /\ \A i \in (Len(Commits) + 1)..Len(Commits') :
             (limit = 0 \/ i < limit) =>
                 \A q \in Range(parents[Commits'[i].Hash]) :
                     IF q \in avail
                     THEN q \in seen'
                          /\ \/ q \in Range(heap')
                             \/ \E j \in 1..Len(Commits') : Commits'[j].Hash = q
                     ELSE q \notin seen' /\ q \notin Range(heap') /\ q \in failed']_vars

\* C16 witness: a commit with two parents is materialized, the lookup of its first
\* parent failed, and its second parent was enqueued all the same.
C16_Witness ==
    \E i \in 1..Len(Commits) :
        /\ Len(ParentsAt(i)) = 2
        /\ ParentsAt(i)[1] \in failed /\ ParentsAt(i)[1] \notin seen
        /\ ParentsAt(i)[2] \in seen
        /\ err = "nil"

\* C17: a lookup failure is permanent for that hash: once a lookup of hash h has
\* failed, h never enters the frontier or the Materialized Sequence for the rest of
\* the session, whatever a later lookup of h would return.
C17_FailurePermanent ==
    \A h \in failed : h \notin Range(heap) /\ h \notin MaterializedHashes

\* C18: the Materialized Sequence is append-only and index-stable: across any
\* operation its length never decreases and every entry already appended keeps its
\* index, its hash and its RenderedRow; only Ensure ever grows it (when it has grown,
\* it is the sequence Ensure returns for the new last index).
C18_AppendOnly ==
    [][/\ Len(Commits') >= Len(Commits)
       /\ SubSeq(Commits', 1, Len(Commits)) = Commits
       /\ Len(Commits') > Len(Commits) =>
              Commits' = Ensure(Provider, Len(Commits') - 1).Commits]_vars

\* C18 witness: the whole history is materialized, with rows of two cells and rows of
\* one cell, under an active filter and a scrolled view.
C18_Witness ==
    /\ Len(Commits) = ChainLen
    /\ Len(Commits[1].Graph) = 2 /\ Len(Commits[ChainLen].Graph) = 1
    /\ filter # <<>> /\ offset > 0

\* the column index of the commit of row i at its Render call
ColumnOf(i) ==
    IF log[i].prepended THEN 0
    ELSE (CHOOSE c \in 1..Len(log[i].cols) : log[i].cols[c] = HashAt(i)) - 1

\* C20: Render(commit) returns a row with exactly columnsBefore + max(0, parentCount-1)
\* cells, columnsBefore counting the column prepended when the commit's hash was not
\* in Column State; every cell's color equals its position; exactly one cell has "*",
\* at the commit's column index idx; cells idx+1..idx+parentCount-1 have "\"; all
\* others have "|"; the width does not depend on a parent being open elsewhere.
C20_RowShape ==
    \A i \in 1..Len(Commits) :
        LET row == Commits[i].Graph
            idx == ColumnOf(i)
            k   == Len(ParentsAt(i))
        IN  /\ Len(row) = ColumnsAtRender(i) + Max(0, k - 1)
            /\ \A c \in 1..Len(row) :
                  /\ row[c].Color = c - 1
                  /\ row[c].Ch = IF c - 1 = idx THEN "*"
                                 ELSE IF idx + 1 <= c - 1 /\ c - 1 <= idx + k - 1
                                      THEN "\\" ELSE "|"
            /\ Glyphs(i, "*") = 1

\* C20 witness: a merge commit was rendered in a column other than column 0 while one
\* of its parents was open in another column, and its row has a pass-through cell.
C20_Witness ==
    \E i \in 1..Len(Commits) :
        /\ Len(ParentsAt(i)) = 2 /\ ColumnOf(i) > 0
        /\ OpenElsewhere(i) # {}
        /\ Glyphs(i, "|") >= 1 /\ Glyphs(i, "\\") = 1

\* the sequence s without the later occurrences of its elements, order preserved
KeepFirst(s) ==
    LET keep == {i \in 1..Len(s) : \A j \in 1..(i - 1) : s[j] # s[i]}
    IN  [n \in 1..Cardinality(keep) |->
            s[CHOOSE i \in keep : Cardinality({j \in keep : j < i}) = n - 1]]
\* the columns at the Render call of row i, the commit's own column included
ColumnsWithOwn(i) ==
    IF log[i].prepended THEN <<HashAt(i)>> \o log[i].cols ELSE log[i].cols

\* C21: after rendering a commit at column idx with parents p1..pk (k >= 1), Column
\* State is (columns before idx) ++ [p1, ..., pk] ++ (columns after idx) with only
\* the first occurrence of every hash kept and the order preserved; for k = 0 it is
\* the previous columns with idx removed.  (Stated of the most recent Render call,
\* whose result the variable columns holds; every Render call is the most recent
\* one in the state it leads to.)
C21_ColumnUpdate ==
    Len(Commits) >= 1 =>
        LET i      == Len(Commits)
            cols   == ColumnsWithOwn(i)
            idx    == ColumnOf(i)
            before == SubSeq(cols, 1, idx)
            after  == SubSeq(cols, idx + 2, Len(cols))
        IN  columns = IF ParentsAt(i) = <<>> THEN before \o after
                      ELSE KeepFirst(before \o ParentsAt(i) \o after)

\* C21 witness: the most recent Render call was of a merge commit in a column other
\* than column 0, one parent of which was already open in a column to its left, so
\* that the parent's new column was dropped and the older one kept.
C21_Witness ==
    /\ Len(Commits) >= 1
    /\ Len(ParentsAt(Len(Commits))) = 2
    /\ \E c \in 1..ColumnOf(Len(Commits)) :
          log[Len(Commits)].cols[c] \in Range(ParentsAt(Len(Commits)))
    /\ Len(columns) >= 2

\* the logical list reaches beyond the visible rows and the look-ahead, or nothing
\* more can be loaded
DemandSatisfied ==
    \/ listLength(Model) > offset + viewportHeight(Model) + Buffer
    \/ ~HasMore(Provider)

\* C22: after every handled resize or key event, either the current logical list has
\* more than offset + viewportHeight + 5 entries, or HasMore() is false.
C22_DemandSatisfied ==
    [][DemandSatisfied']_vars

\* C22 witness: under an active filter the filtered index list is exactly one entry
\* beyond the demand while the traversal could still advance.
C22_Witness ==
    /\ filter # <<>> /\ HasMore(Provider)
    /\ Len(filtered) = offset + viewportHeight(Model) + Buffer + 1
    /\ Len(filtered) < Len(Commits)

\* the model after a cursor-down and after a cursor-up event in the current state
AfterDown == updateKey(Model, [type |-> "down", rune |-> ""])
AfterUp   == updateKey(Model, [type |-> "up", rune |-> ""])
\* the cursor of m is inside the window that is visible in the current state
InsideWindow(m) ==
    offset <= m.cursor /\ m.cursor < offset + viewportHeight(Model)

\* C23: outside the search prompt, a cursor-down event when the cursor is on the last
\* visible row and not on the last list entry increases offset by exactly 1 so that
\* cursor = offset + viewportHeight - 1; a cursor-up event when the cursor is on the
\* first visible row and offset > 0 sets offset = cursor; a cursor move that stays
\* inside the visible window leaves offset unchanged.
C23_ScrollStep ==
    ~searchActive =>
        /\ (/\ cursor = offset + viewportHeight(Model) - 1
            /\ cursor < listLength(Model) - 1) =>
               /\ AfterDown.cursor = cursor + 1
               /\ AfterDown.offset = offset + 1
               /\ AfterDown.cursor = AfterDown.offset + viewportHeight(AfterDown) - 1
        /\ (cursor = offset /\ offset > 0) =>
               /\ AfterUp.cursor = cursor - 1
               /\ AfterUp.offset = AfterUp.cursor
        /\ (AfterDown.cursor # cursor /\ InsideWindow(AfterDown)) =>
               AfterDown.offset = offset
        /\ (AfterUp.cursor # cursor /\ InsideWindow(AfterUp)) =>
               AfterUp.offset = offset

\* C23 witness: with no filter and a window of more than one row, the view has been
\* scrolled down and the cursor is on the last visible row, which is not the last
\* entry, so that the next cursor-down scrolls and the next cursor-up does not.
C23_Witness ==
    /\ ~searchActive /\ filter = <<>>
    /\ viewportHeight(Model) >= 2 /\ offset > 0
    /\ cursor = offset + viewportHeight(Model) - 1
    /\ cursor < listLength(Model) - 1

\* C24: in every reachable state of the provider the seen set is the disjoint union
\* of the hashes in the frontier and the hashes in the Materialized Sequence; no hash
\* is in the frontier twice, and no materialized hash is in the frontier.
C24_SeenIsFrontierPlusMaterialized ==
    /\ seen = Range(heap) \cup MaterializedHashes
    /\ Range(heap) \cap MaterializedHashes = {}
    /\ \A i, j \in 1..Len(heap) : i # j => heap[i] # heap[j]

\* C24 witness: a commit is materialized and two are in the frontier, one of which
\* failed its first lookup and was enqueued when it was met again as a parent.
C24_Witness ==
    /\ Len(Commits) >= 1 /\ Len(heap) = 2
    /\ failed \cap Range(heap) # {}

\* C25: if every commit's timestamp is strictly later than each of its parents'
\* timestamps, limit = 0 and every lookup succeeds, then every commit is emitted
\* after all of its children reachable from the tips, and when the traversal is
\* exhausted (HasMore() false) Column State is empty.
C25_ChildrenFirstNoDangling ==
    (StrictTimestamps /\ limit = 0 /\ avail = DOMAIN parents) =>
        /\ \A i \in 1..Len(Commits) :
              \A d \in ReachableFromTips :
                  HashAt(i) \in Range(parents[d]) =>
                      \E j \in 1..(i - 1) : HashAt(j) = d
        /\ ~HasMore(Provider) => columns = <<>>

\* C25 witness: a history of NumCommits commits from two different tips, with a merge
\* commit and a commit that is the parent of two commits, is exhausted; two branch
\* lines were open at some Render call and none is left.
C25_Witness ==
    /\ StrictTimestamps /\ limit = 0 /\ avail = DOMAIN parents
    /\ ~HasMore(Provider) /\ Len(Commits) = NumCommits /\ columns = <<>>
    /\ Len(tips) = 2 /\ tips[1] # tips[2]
    /\ \E i \in 1..Len(Commits) : Len(ParentsAt(i)) = 2
    /\ \E i \in 1..Len(Commits) :
          /\ Len(log[i].cols) >= 2
          /\ Cardinality({d \in DOMAIN parents : HashAt(i) \in Range(parents[d])}) >= 2

====
